---- MODULE Spec2Model ----
(***************************************************************************)
(* A model of words_stat.cpp: the word-frequency program (main), its       *)
(* tokenizer/counter (ReadFileAndCountStats), the record builder and the   *)
(* fork-join merge sort (ConvertAndSortStats, ParallelMergeSort) and the   *)
(* writer (WriteStatsToFile).                                              *)
(*                                                                         *)
(* Three specifications share the actions of the sorter:                   *)
(*   Spec      the whole program, from main's entry to its exit;           *)
(*   SpecSort  ParallelMergeSort alone, on arbitrary record sequences      *)
(*             (duplicate words included) and budgets, run twice;          *)
(*   SpecFail  SpecSort plus std::async throwing at line 55.               *)
(***************************************************************************)
EXTENDS Integers, Sequences, FiniteSets, TLC

(***************************************************************************)
(* Bounds of the model.                                                    *)
(***************************************************************************)
\* Line 49 compares the segment length with 1024.  The model keeps the
\* comparison (len <= Threshold) and scales the number, so that segments
\* above and below it fit in sequences TLC can enumerate.
Threshold == 1
\* Longest record sequence handed to the sorter in SpecSort / SpecFail.
MaxLen == 4
\* Largest initial budget N in SpecSort / SpecFail.
MaxBudget == 4
\* Largest number of bytes the input file delivers in Spec.
MaxInput == 5
\* Largest value std::thread::hardware_concurrency() reports in Spec.
MaxHW == 5
\* Largest argc main is entered with in Spec.
MaxArgc == 4

(***************************************************************************)
(* Bytes, words and records.                                               *)
(***************************************************************************)
\* A word is a std::string: a sequence of bytes, each 0..255.
\* The bytes the modelled input file can hold: 'A', 'a', 'b', ' ' and 0xE9.
Bytes == {65, 97, 98, 32, 233}

\* struct StatsData
StatsRec(w, n) == [word |-> w, count |-> n]

\* The records SpecSort and SpecFail draw sequences from: ("a", 1), ("ab", 1),
\* ("b", 1) and ("b", 2).  A sequence may hold a record more than once.
StatsData ==
    {StatsRec(<<97>>, 1), StatsRec(<<97, 98>>, 1), StatsRec(<<98>>, 1),
     StatsRec(<<98>>, 2)}

\* std::string's operator<: lexicographic, byte by byte (as unsigned char), a
\* proper prefix first.
RECURSIVE StrLess(_, _)
StrLess(s, t) ==
    IF t = <<>> THEN FALSE
    ELSE IF s = <<>> THEN TRUE
    ELSE IF Head(s) < Head(t) THEN TRUE
    ELSE IF Head(s) > Head(t) THEN FALSE
    ELSE StrLess(Tail(s), Tail(t))

\* A comparator that orders counts ascending.
LessAscending(a, other) ==
    (a.count < other.count) \/
    ((a.count = other.count) /\ StrLess(a.word, other.word))

\* A comparator that compares the counts alone.
LessCountOnly(a, other) == a.count > other.count

\* StatsData::operator<
Less(a, other) ==
    (a.count > other.count) \/
    ((a.count = other.count) /\ StrLess(a.word, other.word))

\* Insertion of x before the first element that x precedes.
RECURSIVE InsertSorted(_, _)
InsertSorted(x, s) ==
    IF s = <<>> THEN <<x>>
    ELSE IF Less(x, Head(s)) THEN <<x>> \o s
    ELSE <<Head(s)>> \o InsertSorted(x, Tail(s))

\* std::sort(begin, end) with operator<: the elements rearranged so that no
\* element precedes an earlier one.
RECURSIVE StdSort(_)
StdSort(s) ==
    IF s = <<>> THEN <<>> ELSE InsertSorted(Head(s), StdSort(Tail(s)))

\* A merge that only concatenates the halves.
MergeConcat(l, r) == l \o r

\* The two-finger stable merge: the right element is taken only when it
\* precedes the left one.
RECURSIVE MergeRuns(_, _)
MergeRuns(l, r) ==
    IF l = <<>> THEN r
    ELSE IF r = <<>> THEN l
    ELSE IF Less(Head(r), Head(l)) THEN <<Head(r)>> \o MergeRuns(l, Tail(r))
    ELSE <<Head(l)>> \o MergeRuns(Tail(l), r)

\* std::inplace_merge(begin, mid, end) on the two halves
InplaceMerge(l, r) == MergeRuns(l, r)

\* The elements of s at the iterator range [b, e) (0-based, half-open).
Segment(s, b, e) == SubSeq(s, b + 1, e)

\* s with the range [b, e) overwritten by seg.
Splice(s, b, e, seg) == SubSeq(s, 1, b) \o seg \o SubSeq(s, e + 1, Len(s))

\* The sequences over S of length at most n.
SeqsUpTo(S, n) == UNION {[1..k -> S] : k \in 0..n}

\* s without its i-th element.
Without(s, i) == SubSeq(s, 1, i - 1) \o SubSeq(s, i + 1, Len(s))

\* The orderings of a sequence.
RECURSIVE Shuffles(_)
Shuffles(s) ==
    IF s = <<>> THEN {<<>>}
    ELSE UNION {{<<s[i]>> \o t : t \in Shuffles(Without(s, i))} :
                   i \in 1..Len(s)}

(***************************************************************************)
(* State.                                                                  *)
(***************************************************************************)
VARIABLES
    mainpc,               \* main's position
    argc,                 \* main's argc
    in_file,              \* the bytes in_file.get(ch) has delivered so far
    current_word_stream,  \* ReadFileAndCountStats' current_word_stream.str()
    words_to_stat_count,  \* the unordered_map: a function word -> count
    stats,                \* the std::vector<StatsData> being sorted
    calls,                \* the ParallelMergeSort calls: id -> frame
    cout,                 \* the lines written to std::cout
    cerr,                 \* the lines written to std::cerr
    in_state,             \* the std::ifstream: "none", "open", "failed", "closed"
    out_file,             \* the std::ofstream and the file behind it
    exit_status,          \* main's return value, -1 while it runs
    hw,                   \* what std::thread::hardware_concurrency() returned,
                          \* -1 before it is called
    unsorted,             \* the vector as it was handed to the sorter
    runs,                 \* SpecSort: which run of the sorter this is
    first_sorted          \* SpecSort: what the first run returned

vars == <<mainpc, argc, in_file, in_state, current_word_stream,
          words_to_stat_count, stats, calls, cout, cerr, out_file, exit_status,
          hw, unsorted, runs, first_sorted>>

mainVars == <<mainpc, argc, in_file, in_state, current_word_stream,
              words_to_stat_count, cout, cerr, out_file, exit_status, hw>>

runVars == <<unsorted, runs, first_sorted>>

(***************************************************************************)
(* ParallelMergeSort.  A call is numbered as in a binary heap: the top     *)
(* call is 1, the task call c dispatches (line 55) is 2c and the call it   *)
(* makes itself (line 56) is 2c+1.  A frame holds the call's iterators,    *)
(* its budget N and its position:                                          *)
(*   "deferred"  a task std::async deferred, not yet started               *)
(*   "entry"     at line 48                                                *)
(*   "sort"      inside std::sort, line 50                                 *)
(*   "fork"      inside the call of line 56                                *)
(*   "wait"      inside sort_part_async.wait(), line 57                    *)
(*   "merge"     inside std::inplace_merge, line 58                        *)
(*   "done"      returned                                                  *)
(*   "threw"     left by an exception                                      *)
(***************************************************************************)
Root == 1
LeftOf(c) == 2 * c
RightOf(c) == 2 * c + 1

Frame(b, e, n, p) == [begin |-> b, end |-> e, N |-> n, pc |-> p]

\* The state the sorter is entered in: one call on the whole vector.
TopCall(s, n) == (Root :> Frame(0, Len(s), n, "entry"))

\* std::distance(begin, end), line 48
SegLen(c) == calls[c].end - calls[c].begin

\* The budget N is an unsigned int.  The model holds its 32-bit pattern read
\* as a signed number: a value of 2^31 or more is held as the negative number
\* congruent to it modulo 2^32, so that N - 2 below 2 wraps to -2 or -1 (for
\* 2^32 - 2 and 2^32 - 1) and the comparison of two unsigned values is
\* UnsignedLess.
UnsignedLess(a, b) == IF (a < 0) = (b < 0) THEN a < b ELSE b < 0

\* A default budget that is never below 1.
DefaultBudgetAtLeastOne(cores) == IF cores \div 2 < 1 THEN 1 ELSE cores \div 2

\* line 47: the default argument, std::thread::hardware_concurrency() / 2
DefaultBudget(cores) == cores \div 2

\* A base case that sorts sequentially below the threshold only.
BaseCaseStrict(c) == SegLen(c) < Threshold \/ UnsignedLess(calls[c].N, 2)

\* A base case that does not look at the budget.
BaseCaseLenOnly(c) == SegLen(c) <= Threshold

\* line 49
BaseCase(c) == SegLen(c) <= Threshold \/ UnsignedLess(calls[c].N, 2)

\* A budget that goes down by one per split.
ChildBudgetMinusOne(c) == calls[c].N - 1

\* N - 2, lines 55 and 56
ChildBudget(c) == calls[c].N - 2

\* A wait that does not run a deferred task.
LeaveDeferred(p) == p

\* sort_part_async.wait() on a deferred task runs it, line 57
RunDeferred(p) == IF p = "deferred" THEN "entry" ELSE p

\* std::next(begin, len / 2), line 54
Mid(c) == calls[c].begin + (SegLen(c) \div 2)

\* A task dispatched on the whole segment instead of its left half.
LeftHalfWhole(c) == <<calls[c].begin, calls[c].end>>

\* [begin, mid): the iterators line 55 hands to the task
LeftHalf(c) == <<calls[c].begin, Mid(c)>>

\* [mid, end): the iterators of the call of line 56
RightHalf(c) == <<Mid(c), calls[c].end>>

\* A wait that returns at once.
WaitNoJoin(c) == TRUE

\* sort_part_async.wait() returns once the task's shared state is ready: the
\* task returned or left by an exception (line 57).
WaitReady(c) == calls[LeftOf(c)].pc \in {"done", "threw"}

\* lines 49-50: the base case enters std::sort
SortBegin(c) ==
    /\ calls[c].pc = "entry"
    /\ BaseCase(c)
    /\ calls' = [calls EXCEPT ![c].pc = "sort"]
    /\ UNCHANGED <<stats, mainVars, runVars>>

\* lines 50-51: std::sort has sorted [begin, end); the call returns
SortEnd(c) ==
    /\ calls[c].pc = "sort"
    /\ stats' = Splice(stats, calls[c].begin, calls[c].end,
                       StdSort(Segment(stats, calls[c].begin, calls[c].end)))
    /\ calls' = [calls EXCEPT ![c].pc = "done"]
    /\ UNCHANGED <<mainVars, runVars>>

\* lines 54-56: std::async dispatches the left half with budget N - 2, run on
\* another thread (policy "async") or deferred to the wait, as the
\* implementation chooses; the right half is then sorted by a direct call.
Split(c, policy) ==
    /\ calls[c].pc = "entry"
    /\ ~BaseCase(c)
    /\ calls' = [calls EXCEPT ![c].pc = "fork"] @@
                (LeftOf(c) :> Frame(LeftHalf(c)[1], LeftHalf(c)[2],
                                    ChildBudget(c),
                                    IF policy = "async" THEN "entry"
                                                        ELSE "deferred")) @@
                (RightOf(c) :> Frame(RightHalf(c)[1], RightHalf(c)[2],
                                     ChildBudget(c), "entry"))
    /\ UNCHANGED <<stats, mainVars, runVars>>

\* lines 56-57: the direct call has returned and wait() is entered; a deferred
\* task is run by the wait itself.
Wait(c) ==
    /\ calls[c].pc = "fork"
    /\ calls[RightOf(c)].pc = "done"
    /\ calls' = [calls EXCEPT
                   ![c].pc = "wait",
                   ![LeftOf(c)].pc = RunDeferred(@)]
    /\ UNCHANGED <<stats, mainVars, runVars>>

\* lines 57-58: wait() returns and std::inplace_merge begins
MergeBegin(c) ==
    /\ calls[c].pc = "wait"
    /\ WaitReady(c)
    /\ calls' = [calls EXCEPT ![c].pc = "merge"]
    /\ UNCHANGED <<stats, mainVars, runVars>>

\* lines 58-59: std::inplace_merge has merged the halves; the call returns
MergeEnd(c) ==
    /\ calls[c].pc = "merge"
    /\ stats' = Splice(stats, calls[c].begin, calls[c].end,
                       InplaceMerge(Segment(stats, calls[c].begin, Mid(c)),
                                    Segment(stats, Mid(c), calls[c].end)))
    /\ calls' = [calls EXCEPT ![c].pc = "done"]
    /\ UNCHANGED <<mainVars, runVars>>

\* line 55: std::async throws (std::bad_alloc, std::system_error) before it
\* dispatches anything; the exception leaves the call.
AsyncThrows(c) ==
    /\ calls[c].pc = "entry"
    /\ ~BaseCase(c)
    /\ calls' = [calls EXCEPT ![c].pc = "threw"]
    /\ UNCHANGED <<stats, mainVars, runVars>>

\* line 56: the direct call threw.  The exception unwinds the frame: the
\* future's destructor blocks until a task running on another thread has
\* finished, and drops a deferred task that was never started.  The
\* exception then leaves the call.
Unwind(c) ==
    /\ calls[c].pc = "fork"
    /\ calls[RightOf(c)].pc = "threw"
    /\ calls[LeftOf(c)].pc \in {"done", "threw", "deferred"}
    /\ calls' = [calls EXCEPT ![c].pc = "threw"]
    /\ UNCHANGED <<stats, mainVars, runVars>>

\* The launch policies the default std::async may choose between.
Policies == {"async", "deferred"}

(***************************************************************************)
(* The program: main and the functions it calls.  mainpc is main's         *)
(* position:                                                               *)
(*   "start"     at line 145                                               *)
(*   "opened"    in ReadFileAndCountStats, at line 64                      *)
(*   "reading"   in the loop of lines 77-86                                *)
(*   "counted"   ReadFileAndCountStats returned, at line 160               *)
(*   "convert"   at line 162                                               *)
(*   "sorting"   in ParallelMergeSort, called at line 113                  *)
(*   "sorted"    ConvertAndSortStats returned, at line 165                 *)
(*   "write"     at line 168                                               *)
(*   "writing"   in the loop of lines 129-131                              *)
(*   "written"   WriteStatsToFile returned, at line 174                    *)
(*   "exited"    main returned                                             *)
(***************************************************************************)
\* An isalpha that takes every byte above 0x7F for a letter.
IsAlphaHighBytes(ch) == ch \in 65..90 \/ ch \in 97..122 \/ ch >= 128

\* std::isalpha in the "C" locale (the program never calls setlocale): the
\* ASCII letters.  A byte above 0x7F is no letter.
IsAlpha(ch) == ch \in 65..90 \/ ch \in 97..122

\* A tolower that leaves the byte as it is.
ToLowerIdentity(ch) == ch

\* std::tolower in the "C" locale
ToLower(ch) == IF ch \in 65..90 THEN ch + 32 ELSE ch

\* words_to_stat_count[word] += 1: operator[] inserts a count of 0 for a new
\* word.
Increment(table, word) ==
    LET found == IF word \in DOMAIN table THEN table ELSE table @@ (word :> 0)
    IN  [found EXCEPT ![word] = @ + 1]

\* A flush that counts the candidate word even when it is empty.
FlushEvenEmpty(table, word) == Increment(table, word)

\* lines 81-83: a non-empty candidate word is counted
Flush(table, word) ==
    IF word # <<>> THEN Increment(table, word) ELSE table

\* An end of stream that drops the candidate word.
NoFinalFlush(table, word) == table

\* lines 96-98: the candidate word the stream ended in is counted
FinalFlush(table, word) ==
    IF word # <<>> THEN Increment(table, word) ELSE table

\* Records that carry the words of the table with a count of 1.
EntriesCountOne(table) == {StatsRec(w, 1) : w \in DOMAIN table}

\* The table's entries as StatsData records.
Entries(table) == {StatsRec(w, table[w]) : w \in DOMAIN table}

\* The orders in which the loop of lines 108-111 may visit a set of entries.
RECURSIVE Orders(_)
Orders(S) ==
    IF S = {} THEN {<<>>}
    ELSE UNION {{<<x>> \o t : t \in Orders(S \ {x})} : x \in S}

\* An argc test that lets surplus arguments through.
ArgcAtLeast == argc >= 3

\* line 145
ArgcOk == argc = 3

\* An is_open() that always answers true.
IsOpenAlways == TRUE

\* in_file.is_open(), line 64
InputIsOpen == in_state = "open"

\* The std::ofstream before line 120.
NoOutput == [opened |-> FALSE, open |-> FALSE, bad |-> FALSE, next |-> 1,
             lines |-> <<>>]

UsageMsg == "usage: ./freq <fromfile> <tofile>"
CantOpenInputMsg == "can't open input file for reading, filename: "
CantOpenOutputMsg == "can't open output file for writing, filename: "

\* A LogTime that prints nothing.
LogTimeSilent(log_text) == cout' = cout

\* TimeLogger::LogTime, lines 17-27
LogTime(log_text) == cout' = Append(cout, "Time spent for " \o log_text)

sortVars == <<stats, calls, unsorted, runs, first_sorted>>

\* What only Convert changes.
budgetVars == <<hw>>

\* lines 145-148
Usage ==
    /\ mainpc = "start"
    /\ ~ArgcOk
    /\ cerr' = Append(cerr, UsageMsg)
    /\ exit_status' = 0
    /\ mainpc' = "exited"
    /\ UNCHANGED <<argc, in_file, in_state, current_word_stream,
                   words_to_stat_count, cout, out_file, sortVars,
                   budgetVars>>

\* lines 150-154 and 63: the std::ifstream is constructed; the file opens or
\* it does not.
OpenInput(ok) ==
    /\ mainpc = "start"
    /\ ArgcOk
    /\ in_state' = IF ok THEN "open" ELSE "failed"
    /\ mainpc' = "opened"
    /\ UNCHANGED <<argc, in_file, current_word_stream, words_to_stat_count,
                   cout, cerr, out_file, exit_status, sortVars,
                   budgetVars>>

\* lines 64-69 and 155-158: the file is not open; the message is printed, the
\* std::runtime_error is caught by main, which returns 0.
InputNotOpen ==
    /\ mainpc = "opened"
    /\ ~InputIsOpen
    /\ cerr' = Append(cerr, CantOpenInputMsg)
    /\ exit_status' = 0
    /\ mainpc' = "exited"
    /\ UNCHANGED <<argc, in_file, in_state, current_word_stream,
                   words_to_stat_count, cout, out_file, sortVars,
                   budgetVars>>

\* lines 64 and 70-74: the file is open; the loop is entered
InputOpen ==
    /\ mainpc = "opened"
    /\ InputIsOpen
    /\ mainpc' = "reading"
    /\ UNCHANGED <<argc, in_file, in_state, current_word_stream,
                   words_to_stat_count, cout, cerr, out_file, exit_status,
                   sortVars,
                   budgetVars>>

\* lines 77-86: in_file.get(ch) delivers a byte
ReadChar(ch) ==
    /\ mainpc = "reading"
    /\ in_state = "open"
    /\ Len(in_file) < MaxInput
    /\ in_file' = Append(in_file, ch)
    /\ IF IsAlpha(ch)
       THEN /\ current_word_stream' = Append(current_word_stream, ToLower(ch))
            /\ UNCHANGED words_to_stat_count
       ELSE /\ words_to_stat_count' =
                   Flush(words_to_stat_count, current_word_stream)
            /\ current_word_stream' = <<>>
    /\ UNCHANGED <<mainpc, argc, in_state, cout, cerr, out_file, exit_status,
                   sortVars,
                   budgetVars>>

\* lines 77 and 94-101: in_file.get(ch) fails (the end of the stream, or a
\* stream that is not open); the file is closed, the last candidate word is
\* counted and the table returned to main.  The function's locals, the
\* candidate word among them, end with it.
ReadEnd ==
    /\ mainpc = "reading"
    /\ in_state' = "closed"
    /\ words_to_stat_count' =
           FinalFlush(words_to_stat_count, current_word_stream)
    /\ current_word_stream' = <<>>
    /\ mainpc' = "counted"
    /\ UNCHANGED <<argc, in_file, cout, cerr, out_file, exit_status, sortVars,
                   budgetVars>>

\* line 160
LogRead ==
    /\ mainpc = "counted"
    /\ LogTime("read and count stats")
    /\ mainpc' = "convert"
    /\ UNCHANGED <<argc, in_file, in_state, current_word_stream,
                   words_to_stat_count, cerr, out_file, exit_status, sortVars,
                   budgetVars>>

\* lines 162 and 105-113: one record per entry of the table, in the order the
\* unordered_map iterates; the sorter is called with the default budget,
\* std::thread::hardware_concurrency() / 2.  The table keeps its entries: its
\* keys are const and are copied.
Convert(order, cores) ==
    /\ mainpc = "convert"
    /\ stats' = order
    /\ unsorted' = order
    /\ hw' = cores
    /\ calls' = TopCall(order, DefaultBudget(cores))
    /\ mainpc' = "sorting"
    /\ UNCHANGED <<argc, in_file, in_state, current_word_stream,
                   words_to_stat_count, cout, cerr, out_file, exit_status,
                   runs, first_sorted>>

\* lines 115 and 162-163: the sorter returned; main clears the table
SortReturn ==
    /\ mainpc = "sorting"
    /\ calls[Root].pc = "done"
    /\ words_to_stat_count' = <<>>
    /\ mainpc' = "sorted"
    /\ UNCHANGED <<argc, in_file, in_state, current_word_stream, cout, cerr,
                   out_file, exit_status, sortVars,
                   budgetVars>>

\* line 165
LogSort ==
    /\ mainpc = "sorted"
    /\ LogTime("sort stats")
    /\ mainpc' = "write"
    /\ UNCHANGED <<argc, in_file, in_state, current_word_stream,
                   words_to_stat_count, cerr, out_file, exit_status, sortVars,
                   budgetVars>>

\* lines 168 and 120-121: the std::ofstream opens the file, which truncates it
OpenOutput ==
    /\ mainpc = "write"
    /\ out_file' = [NoOutput EXCEPT !.opened = TRUE, !.open = TRUE]
    /\ mainpc' = "writing"
    /\ UNCHANGED <<argc, in_file, in_state, current_word_stream,
                   words_to_stat_count, cout, cerr, exit_status, sortVars,
                   budgetVars>>

\* lines 120-126 and 169-172: the file does not open; the message is printed,
\* the std::runtime_error is caught by main, which returns 0.
OutputNotOpen ==
    /\ mainpc = "write"
    /\ cerr' = Append(cerr, CantOpenOutputMsg)
    /\ exit_status' = 0
    /\ mainpc' = "exited"
    /\ UNCHANGED <<argc, in_file, in_state, current_word_stream,
                   words_to_stat_count, cout, out_file, sortVars,
                   budgetVars>>

\* lines 129-131: one record is written as "word count\n".  The stream has
\* no exceptions enabled: a write that fails sets badbit and throws nothing,
\* and a stream with badbit set writes nothing more.
WriteRecord(fails) ==
    /\ mainpc = "writing"
    /\ out_file.next <= Len(stats)
    /\ out_file' =
         [out_file EXCEPT
            !.next = @ + 1,
            !.bad = @ \/ fails,
            !.lines = IF out_file.bad \/ fails THEN @
                      ELSE Append(@, <<stats[out_file.next].word,
                                       stats[out_file.next].count>>)]
    /\ UNCHANGED <<mainpc, argc, in_file, in_state, current_word_stream,
                   words_to_stat_count, cout, cerr, exit_status, sortVars,
                   budgetVars>>

\* lines 129 and 139-140: the loop is over; the file is closed
CloseOutput ==
    /\ mainpc = "writing"
    /\ out_file.next > Len(stats)
    /\ out_file' = [out_file EXCEPT !.open = FALSE]
    /\ mainpc' = "written"
    /\ UNCHANGED <<argc, in_file, in_state, current_word_stream,
                   words_to_stat_count, cout, cerr, exit_status, sortVars,
                   budgetVars>>

\* lines 174-176
LogWrite ==
    /\ mainpc = "written"
    /\ LogTime("write stats")
    /\ exit_status' = 0
    /\ mainpc' = "exited"
    /\ UNCHANGED <<argc, in_file, in_state, current_word_stream,
                   words_to_stat_count, cerr, out_file, sortVars,
                   budgetVars>>

Init ==
    /\ mainpc = "start"
    /\ argc \in 1..MaxArgc
    /\ in_file = <<>>
    /\ in_state = "none"
    /\ current_word_stream = <<>>
    /\ words_to_stat_count = <<>>
    /\ stats = <<>>
    /\ calls = <<>>
    /\ cout = <<>>
    /\ cerr = <<>>
    /\ out_file = NoOutput
    /\ exit_status = -1
    /\ hw = -1
    /\ unsorted = <<>>
    /\ runs = 1
    /\ first_sorted = <<>>

Next ==
    \/ Usage
    \/ \E ok \in BOOLEAN : OpenInput(ok)
    \/ InputNotOpen
    \/ InputOpen
    \/ \E ch \in Bytes : ReadChar(ch)
    \/ ReadEnd
    \/ LogRead
    \/ \E order \in Orders(Entries(words_to_stat_count)), cores \in 0..MaxHW :
          Convert(order, cores)
    \/ \E c \in DOMAIN calls : SortBegin(c)
    \/ \E c \in DOMAIN calls : SortEnd(c)
    \/ \E c \in DOMAIN calls, policy \in Policies : Split(c, policy)
    \/ \E c \in DOMAIN calls : Wait(c)
    \/ \E c \in DOMAIN calls : MergeBegin(c)
    \/ \E c \in DOMAIN calls : MergeEnd(c)
    \/ SortReturn
    \/ LogSort
    \/ OpenOutput
    \/ OutputNotOpen
    \/ \E fails \in BOOLEAN : WriteRecord(fails)
    \/ CloseOutput
    \/ LogWrite

Spec == Init /\ [][Next]_vars

(***************************************************************************)
(* SpecSort: the sorter on its own.                                        *)
(***************************************************************************)
InitSort ==
    /\ mainpc = "sorting"
    /\ argc = 3
    /\ in_file = <<>>
    /\ in_state = "none"
    /\ current_word_stream = <<>>
    /\ words_to_stat_count = <<>>
    /\ cout = <<>>
    /\ cerr = <<>>
    /\ out_file = NoOutput
    /\ exit_status = -1
    /\ hw = -1
    /\ stats \in SeqsUpTo(StatsData, MaxLen)
    /\ unsorted = stats
    /\ \E n \in 0..MaxBudget : calls = TopCall(stats, n)
    /\ runs = 1
    /\ first_sorted = <<>>

\* The sorter is called again, on a shuffle of the records it returned (its
\* own output included), with any budget.
SortAgain ==
    /\ runs = 1
    /\ calls[Root].pc = "done"
    /\ runs' = runs + 1
    /\ first_sorted' = stats
    /\ \E s \in Shuffles(stats), n \in 0..MaxBudget :
          /\ stats' = s
          /\ unsorted' = s
          /\ calls' = TopCall(s, n)
    /\ UNCHANGED mainVars

NextSort ==
    \/ \E c \in DOMAIN calls : SortBegin(c)
    \/ \E c \in DOMAIN calls : SortEnd(c)
    \/ \E c \in DOMAIN calls, policy \in Policies : Split(c, policy)
    \/ \E c \in DOMAIN calls : Wait(c)
    \/ \E c \in DOMAIN calls : MergeBegin(c)
    \/ \E c \in DOMAIN calls : MergeEnd(c)
    \/ SortAgain

SpecSort == InitSort /\ [][NextSort]_vars

(***************************************************************************)
(* SpecLive: one run of the sorter under fair scheduling.  Every thread    *)
(* that can take a step is eventually scheduled, so a step of the sorter   *)
(* that stays possible is eventually taken.                                *)
(***************************************************************************)
NextLive ==
    \/ \E c \in DOMAIN calls : SortBegin(c)
    \/ \E c \in DOMAIN calls : SortEnd(c)
    \/ \E c \in DOMAIN calls, policy \in Policies : Split(c, policy)
    \/ \E c \in DOMAIN calls : Wait(c)
    \/ \E c \in DOMAIN calls : MergeBegin(c)
    \/ \E c \in DOMAIN calls : MergeEnd(c)

SpecLive == InitSort /\ [][NextLive]_vars /\ WF_vars(NextLive)

(***************************************************************************)
(* SpecFail: the sorter on its own, with std::async free to throw.         *)
(***************************************************************************)
NextFail ==
    \/ \E c \in DOMAIN calls : SortBegin(c)
    \/ \E c \in DOMAIN calls : SortEnd(c)
    \/ \E c \in DOMAIN calls, policy \in Policies : Split(c, policy)
    \/ \E c \in DOMAIN calls : Wait(c)
    \/ \E c \in DOMAIN calls : MergeBegin(c)
    \/ \E c \in DOMAIN calls : MergeEnd(c)
    \/ \E c \in DOMAIN calls : AsyncThrows(c)
    \/ \E c \in DOMAIN calls : Unwind(c)

SpecFail == InitSort /\ [][NextFail]_vars

(***************************************************************************)
(* Properties of the sorter (SpecSort, SpecFail).                          *)
(***************************************************************************)
\* A precedes-or-equals B in the output order: count descending, then word
\* ascending.
InOrder(A, B) ==
    \/ A.count > B.count
    \/ A.count = B.count /\ (A.word = B.word \/ StrLess(A.word, B.word))

\* Every adjacent pair of s is in order.
Ordered(s) == \A i \in 1..(Len(s) - 1) : InOrder(s[i], s[i + 1])

Returned(c) == c \in DOMAIN calls /\ calls[c].pc = "done"

HasSplit(c) == LeftOf(c) \in DOMAIN calls

\* A call that is reading or writing its segment: inside std::sort or
\* std::inplace_merge.
Accessing(c) == calls[c].pc \in {"sort", "merge"}

\* C1: when a ParallelMergeSort call has returned, every adjacent pair (A, B)
\* of its segment has A.count > B.count, or A.count = B.count and
\* A.word <= B.word; for the top call this is the whole sequence.
C1_SortedOnReturn ==
    \A c \in DOMAIN calls :
        calls[c].pc = "done" =>
            Ordered(Segment(stats, calls[c].begin, calls[c].end))

\* The top call returned after splitting twice, on an input of four records
\* that was not in order.
C1_Witness ==
    /\ Returned(Root)
    /\ HasSplit(Root) /\ HasSplit(LeftOf(Root)) /\ HasSplit(RightOf(Root))
    /\ ~Ordered(unsorted)
    /\ Len(stats) = 4

\* C2: when the top call has returned, the sequence is, element by element,
\* what one sequential std::sort of the input gives, whether the call split
\* or not and whatever the budget.
C2_EqualsSequentialSort ==
    Returned(Root) => stats = StdSort(unsorted)

\* The top call returned after splitting, its direct call having split too,
\* and the merges had to move records.
C2_Witness ==
    /\ Returned(Root)
    /\ HasSplit(Root) /\ HasSplit(RightOf(Root))
    /\ unsorted # stats
    /\ unsorted # Segment(stats, 0, Mid(Root)) \o
                  Segment(stats, Mid(Root), Len(stats))
    /\ Len(stats) >= 3

\* C3: a call whose dispatched left-half task was left by an exception
\* does not return normally.
C3_TaskFailurePropagates ==
    \A c \in DOMAIN calls :
        (HasSplit(c) /\ calls[LeftOf(c)].pc = "threw") =>
            calls[c].pc # "done"

\* C4: while a call merges, the task it dispatched and the call it made have
\* both returned, and both halves are in order.
C4_MergeAfterBothHalves ==
    \A c \in DOMAIN calls :
        calls[c].pc = "merge" =>
            /\ calls[LeftOf(c)].pc = "done"
            /\ calls[RightOf(c)].pc = "done"
            /\ Ordered(Segment(stats, calls[c].begin, Mid(c)))
            /\ Ordered(Segment(stats, Mid(c), calls[c].end))

\* A call is merging two halves that the merge has to interleave.
C4_Witness ==
    \E c \in DOMAIN calls :
        /\ calls[c].pc = "merge"
        /\ ~Ordered(Segment(stats, calls[c].begin, calls[c].end))
        /\ SegLen(c) >= 4

\* C5: the segments of any two calls that are inside std::sort or
\* std::inplace_merge at the same time do not overlap.
C5_DisjointAccess ==
    \A c, d \in DOMAIN calls :
        (c # d /\ Accessing(c) /\ Accessing(d)) =>
            \/ calls[c].end <= calls[d].begin
            \/ calls[d].end <= calls[c].begin

\* A task is merging while another call is inside std::sort.
C5_Witness ==
    \E c, d \in DOMAIN calls :
        /\ calls[c].pc = "merge"
        /\ calls[d].pc = "sort"
        /\ SegLen(c) > 0 /\ SegLen(d) > 0

\* C8: a second run of the sorter, on any shuffle of the records (the first
\* run's own output included) and with any budget, returns the sequence the
\* first run returned.
C8_OrderIndependent ==
    (runs = 2 /\ Returned(Root)) => stats = first_sorted

\* The second run returned after a split, having started from an ordering
\* that was neither the first run's output nor in order.
C8_Witness ==
    /\ runs = 2
    /\ Returned(Root)
    /\ HasSplit(Root)
    /\ unsorted # first_sorted
    /\ \E i, j \in 1..Len(stats) : stats[i].count = stats[j].count
                                    /\ stats[i].word # stats[j].word

(***************************************************************************)
(* Properties of the program (Spec).                                       *)
(***************************************************************************)
\* An ASCII letter.
Letter(b) == (65 <= b /\ b <= 90) \/ (97 <= b /\ b <= 122)

\* The positions of s at which a maximal run of letters starts.
RunStarts(s) ==
    {i \in 1..Len(s) : Letter(s[i]) /\ (i = 1 \/ ~Letter(s[i - 1]))}

\* The position at which the run that starts at i ends.
RunEnd(s, i) ==
    CHOOSE j \in i..Len(s) :
        /\ \A k \in i..j : Letter(s[k])
        /\ j = Len(s) \/ ~Letter(s[j + 1])

\* The maximal run of letters of s that starts at i.
Run(s, i) == SubSeq(s, i, RunEnd(s, i))

\* Two runs of letters are the same word when they differ in case at most.
SameWord(u, v) ==
    /\ Len(u) = Len(v)
    /\ \A k \in 1..Len(u) : u[k] = v[k] \/ u[k] = v[k] + 32 \/ v[k] = u[k] + 32

\* The number of maximal runs of letters of s.
Tokens(s) == Cardinality(RunStarts(s))

\* The number of distinct words of s: the runs that are no earlier run's word.
DistinctWords(s) ==
    Cardinality({i \in RunStarts(s) :
                    \A j \in RunStarts(s) :
                        j < i => ~SameWord(Run(s, i), Run(s, j))})

RECURSIVE SumCounts(_)
SumCounts(s) == IF s = <<>> THEN 0 ELSE Head(s).count + SumCounts(Tail(s))

\* C6: once the sorter called by ConvertAndSortStats has returned, the
\* sequence has as many records as the input has distinct words (maximal runs
\* of ASCII letters, compared without case), and no two records share a word.
C6_OneRecordPerDistinctWord ==
    Returned(Root) =>
        /\ Len(stats) = DistinctWords(in_file)
        /\ \A i, j \in 1..Len(stats) : i # j => stats[i].word # stats[j].word

\* The sort returned two records for an input of three runs, one word of
\* which occurs in both cases.
C6_Witness ==
    /\ Returned(Root)
    /\ Len(stats) = 2
    /\ Tokens(in_file) = 3
    /\ \E i \in 1..Len(in_file) : in_file[i] = 65
    /\ \E i \in 1..Len(in_file) : in_file[i] = 97

\* C7: once the sorter called by ConvertAndSortStats has returned, the counts
\* of the records add up to the number of maximal runs of letters of the
\* input, a run that the end of the stream ends included.
C7_CountsSumToTokens ==
    Returned(Root) => SumCounts(stats) = Tokens(in_file)

\* The sort returned for an input of three runs of two words, the last run
\* ended by the end of the stream.
C7_Witness ==
    /\ Returned(Root)
    /\ Tokens(in_file) = 3
    /\ Letter(in_file[Len(in_file)])
    /\ Len(stats) = 2

\* What a run that does nothing but exit has left untouched.
NothingDone ==
    /\ in_state = "none"
    /\ in_file = <<>>
    /\ current_word_stream = <<>>
    /\ words_to_stat_count = <<>>
    /\ stats = <<>>
    /\ calls = <<>>
    /\ out_file = NoOutput
    /\ cout = <<>>

\* C9: entered with argc other than 3, main only prints the usage message to
\* std::cerr and returns 0: no file is opened, read or written, nothing is
\* sorted and no timing line is printed.
C9_UsageOnly ==
    argc # 3 =>
        /\ NothingDone
        /\ \/ mainpc = "start" /\ cerr = <<>> /\ exit_status = -1
           \/ mainpc = "exited" /\ cerr = <<UsageMsg>> /\ exit_status = 0

\* main was entered with a surplus argument and has returned.
C9_Witness == argc > 3 /\ mainpc = "exited"

\* C10: when the input file did not open, the program prints the error to
\* std::cerr and returns 0; it counts, sorts and writes nothing, the output
\* file is not opened and no timing line is printed.
C10_NoInputNoOutput ==
    in_state = "failed" =>
        /\ in_file = <<>>
        /\ current_word_stream = <<>>
        /\ words_to_stat_count = <<>>
        /\ stats = <<>>
        /\ calls = <<>>
        /\ out_file = NoOutput
        /\ cout = <<>>
        /\ \/ mainpc = "opened" /\ cerr = <<>> /\ exit_status = -1
           \/ mainpc = "exited" /\ cerr = <<CantOpenInputMsg>>
                                /\ exit_status = 0

\* The input file did not open and main has returned.
C10_Witness == in_state = "failed" /\ mainpc = "exited"

\* The timing lines, in the order main prints them.
ReadLine == "Time spent for read and count stats"
SortLine == "Time spent for sort stats"
WriteLine == "Time spent for write stats"

\* The elements of a sequence.
Range(s) == {s[i] : i \in 1..Len(s)}

\* main has passed the sort phase and WriteStatsToFile did not open the file.
OutputOpenFailed ==
    /\ mainpc = "exited"
    /\ SortLine \in Range(cout)
    /\ ~out_file.opened

\* C11: when the output file does not open, or a write of a record line
\* fails, a diagnostic is printed to std::cerr by the time main returns, and
\* the "write stats" line is never printed.
C11_WriteFailureFatal ==
    (out_file.bad \/ OutputOpenFailed) =>
        /\ WriteLine \notin Range(cout)
        /\ mainpc = "exited" => cerr # <<>>

\* C12: the timing lines are printed in the order read, sort, write, each at
\* most once; the sorter is entered only after the "read and count stats"
\* line, the "sort stats" line is printed only after the sorter has returned,
\* the output file is opened only after the "sort stats" line, and the "write
\* stats" line is printed only after every record was passed to the stream
\* and the file closed; a run that opens both files prints all three lines.
C12_PhasesInOrder ==
    /\ cout \in {<<>>, <<ReadLine>>, <<ReadLine, SortLine>>,
                 <<ReadLine, SortLine, WriteLine>>}
    /\ Len(cout) >= 1 => in_state = "closed"
    /\ calls # <<>> => Len(cout) >= 1
    /\ Len(cout) = 1 => mainpc \in {"convert", "sorting", "sorted"}
    /\ Len(cout) >= 2 => Returned(Root) /\ mainpc \notin {"sorting", "sorted"}
    /\ out_file.opened => Len(cout) >= 2
    /\ Len(cout) = 2 => mainpc \in {"write", "writing", "written", "exited"}
    /\ Len(cout) = 3 => /\ out_file.opened /\ ~out_file.open
                        /\ out_file.next = Len(stats) + 1
                        /\ mainpc = "exited"
    /\ (mainpc = "exited" /\ out_file.opened) => Len(cout) = 3

\* A run has written two records and printed its three lines.
C12_Witness ==
    /\ mainpc = "exited"
    /\ Len(cout) = 3
    /\ Len(out_file.lines) = 2

\* The input has been read to its end and holds no letter.
NoWordRead == in_state = "closed" /\ \A i \in 1..Len(in_file) : ~Letter(in_file[i])

\* C13: for an input that is empty or holds no letter, the table is empty,
\* the sorter is called on a sequence of length zero and makes no other call
\* and dispatches no task, and the output file, once WriteStatsToFile has
\* opened it, holds no line.
C13_EmptyInputEmptyOutput ==
    NoWordRead =>
        /\ words_to_stat_count = <<>>
        /\ stats = <<>>
        /\ DOMAIN calls \subseteq {Root}
        /\ mainpc \notin {"counted", "convert"} =>
               /\ DOMAIN calls = {Root}
               /\ SegLen(Root) = 0
               /\ calls[Root].pc \in {"entry", "sort", "done"}
        /\ out_file.lines = <<>>
        /\ mainpc = "written" => out_file.opened

\* An input of bytes that are no letters was read, sorted with a budget that
\* allows a split, and the output file was opened and closed.
C13_Witness ==
    /\ NoWordRead
    /\ 233 \in Range(in_file) /\ 32 \in Range(in_file)
    /\ calls # <<>> /\ calls[Root].N >= 2
    /\ mainpc = "written"
    /\ out_file.opened

\* A run of letters in lower case.
LowerWord(u) == [k \in 1..Len(u) |-> IF u[k] <= 90 THEN u[k] + 32 ELSE u[k]]

\* The runs of s that a byte which is no letter has ended, and with `ended`
\* the run that the end of the stream has ended.
CompleteRuns(s, ended) ==
    {i \in RunStarts(s) : RunEnd(s, i) < Len(s) \/ ended}

\* The words of the complete runs of s.
WordsOf(s, ended) == {LowerWord(Run(s, i)) : i \in CompleteRuns(s, ended)}

\* How many complete runs of s are the word w.
Occurrences(s, ended, w) ==
    Cardinality({i \in CompleteRuns(s, ended) : LowerWord(Run(s, i)) = w})

\* The table while it is being filled and until main clears it: one entry
\* per word of the bytes read so far, holding the number of its runs.
TableCounts ==
    mainpc \in {"reading", "counted", "convert", "sorting"} =>
        /\ DOMAIN words_to_stat_count = WordsOf(in_file, mainpc # "reading")
        /\ <<>> \notin DOMAIN words_to_stat_count
        /\ \A w \in DOMAIN words_to_stat_count :
              /\ words_to_stat_count[w] >= 1
              /\ words_to_stat_count[w] =
                     Occurrences(in_file, mainpc # "reading", w)

\* A step of the scan reaches a byte that is no letter, or the end of the
\* stream, with a candidate word that is not empty.
WordEnds ==
    /\ current_word_stream # <<>>
    /\ \/ mainpc' = "counted"
       \/ /\ Len(in_file') = Len(in_file) + 1
          /\ ~Letter(in_file'[Len(in_file')])

\* A step of the scan counts the candidate word once and resets it when
\* WordEnds, and leaves the table as it is otherwise.
ScanStep ==
    mainpc = "reading" =>
        IF WordEnds
        THEN /\ current_word_stream' = <<>>
             /\ DOMAIN words_to_stat_count' =
                    DOMAIN words_to_stat_count \cup {current_word_stream}
             /\ \A w \in DOMAIN words_to_stat_count' :
                    words_to_stat_count'[w] =
                        (IF w \in DOMAIN words_to_stat_count
                         THEN words_to_stat_count[w] ELSE 0) +
                        (IF w = current_word_stream THEN 1 ELSE 0)
        ELSE words_to_stat_count' = words_to_stat_count

\* C14: every step of the scan counts and resets the candidate word exactly
\* when a byte that is no letter, or the end of the stream, is reached with a
\* candidate that is not empty; and whatever bytes were read, the table holds
\* one entry per distinct lower-case word, each with a count of at least 1
\* that is the number of its runs, and none for the empty string.
C14_TokenizerCounts == []TableCounts /\ [][ScanStep]_vars

\* The stream ended with two words counted, one of them twice.
C14_Witness ==
    /\ mainpc = "counted"
    /\ Cardinality(DOMAIN words_to_stat_count) = 2
    /\ \E w \in DOMAIN words_to_stat_count : words_to_stat_count[w] = 2

\* C15 as stated: a call in std::sort has a segment shorter than the
\* threshold or a budget below 2.
C15_SequentialBelowThreshold ==
    \A c \in DOMAIN calls :
        calls[c].pc = "sort" => (SegLen(c) < Threshold \/ calls[c].N < 2)

\* C15: a call past its entry has sorted sequentially, without children,
\* exactly when its segment is no longer than the threshold or its budget is
\* below 2; otherwise it has split at the midpoint, the left half dispatched
\* as a task and the right half called directly.
C15_SequentialUpToThreshold ==
    \A c \in DOMAIN calls :
        calls[c].pc \notin {"deferred", "entry"} =>
            IF SegLen(c) <= Threshold \/ calls[c].N < 2
            THEN /\ ~HasSplit(c)
                 /\ RightOf(c) \notin DOMAIN calls
                 /\ calls[c].pc \in {"sort", "done"}
            ELSE /\ calls[c].pc \in {"fork", "wait", "merge", "done"}
                 /\ HasSplit(c)
                 /\ RightOf(c) \in DOMAIN calls
                 /\ calls[LeftOf(c)].begin = calls[c].begin
                 /\ calls[LeftOf(c)].end =
                        calls[c].begin + (SegLen(c) \div 2)
                 /\ calls[RightOf(c)].begin = calls[LeftOf(c)].end
                 /\ calls[RightOf(c)].end = calls[c].end

\* A call has split, and its task, on a segment of exactly the threshold
\* length with a budget of at least 2, has sorted sequentially and returned.
C15_Witness ==
    \E c \in DOMAIN calls :
        /\ HasSplit(c)
        /\ SegLen(LeftOf(c)) = Threshold
        /\ calls[LeftOf(c)].N >= 2
        /\ calls[LeftOf(c)].pc = "done"
        /\ ~HasSplit(LeftOf(c))

\* C16 as stated: the top call's budget is max(1, hw / 2).
C16_BudgetAtLeastOne ==
    calls # <<>> =>
        calls[Root].N = (IF hw \div 2 < 1 THEN 1 ELSE hw \div 2)

\* C16: the top call started by ConvertAndSortStats has budget
\* floor(hardware_concurrency / 2), which is 0 when 0 or 1 is reported.
C16_BudgetIsHalf ==
    calls # <<>> => (hw >= 0 /\ calls[Root].N = hw \div 2)

\* One thread was reported, the top call had budget 0 and has returned with
\* more than one record.
C16_Witness ==
    /\ calls # <<>>
    /\ hw = 1
    /\ calls[Root].N = 0
    /\ Returned(Root)
    /\ Len(stats) >= 2

RECURSIVE Pow2(_)
Pow2(k) == IF k = 0 THEN 1 ELSE 2 * Pow2(k - 1)

\* The number of splits above call c.
RECURSIVE Depth(_)
Depth(c) == IF c = Root THEN 0 ELSE 1 + Depth(c \div 2)

\* The calls whose task is dispatched and not yet joined.
Outstanding ==
    {c \in DOMAIN calls : HasSplit(c) /\ calls[c].pc \in {"fork", "wait"}}

\* C17: both children of a split get the budget less 2; no call is deeper
\* than floor(B0 / 2) splits; at most 2^floor(B0/2) - 1 tasks are
\* outstanding; a call with a budget below 2 has no children.
C17_BudgetBoundsTasks ==
    /\ \A c \in DOMAIN calls :
          /\ HasSplit(c) =>
                /\ calls[LeftOf(c)].N = calls[c].N - 2
                /\ calls[RightOf(c)].N = calls[c].N - 2
          /\ Depth(c) <= calls[Root].N \div 2
          /\ calls[c].N < 2 => ~HasSplit(c)
    /\ Cardinality(Outstanding) <= Pow2(calls[Root].N \div 2) - 1

\* With budget 4 three tasks are outstanding at once.
C17_Witness ==
    /\ calls[Root].N = 4
    /\ Cardinality(Outstanding) = 3

\* Every call that was made has returned.
AllReturned == \A c \in DOMAIN calls : calls[c].pc = "done"

\* C18: under fair scheduling the run reaches, and stays in, a state where
\* every call that was made, dispatched as a task or called directly, has
\* returned: every task ran to completion, every wait returned (a call
\* returns only through its wait and merge), and the top call returned.
C18_ForkJoinTerminates == <>[]AllReturned

\* The top call has returned after two levels of splits, all seven calls
\* done.
C18_Witness ==
    /\ DOMAIN calls = 1..7
    /\ \A c \in DOMAIN calls : calls[c].pc = "done"

\* C19 as stated: the table holds no entries while the sorter runs.
C19_TableConsumedAtHandover ==
    mainpc = "sorting" => words_to_stat_count = <<>>

\* C19: from the entry of the sorter on, the records are one per entry of
\* the table, each with its entry's word and count; the table keeps its
\* entries while the sorter runs and is empty once ConvertAndSortStats has
\* returned and main has cleared it.
C19_OneRecordPerEntry ==
    /\ mainpc = "sorting" =>
          /\ calls # <<>>
          /\ Len(stats) = Cardinality(DOMAIN words_to_stat_count)
          /\ Len(unsorted) = Len(stats)
          /\ \A w \in DOMAIN words_to_stat_count :
                \A s \in {stats, unsorted} :
                    \E i \in 1..Len(s) :
                        /\ s[i].word = w
                        /\ s[i].count = words_to_stat_count[w]
    /\ mainpc \in {"sorted", "write", "writing", "written"} =>
          words_to_stat_count = <<>>

\* The sorter has returned and the table still holds two entries, one of
\* them with count 2.
C19_Witness ==
    /\ mainpc = "sorting"
    /\ Returned(Root)
    /\ Cardinality(DOMAIN words_to_stat_count) = 2
    /\ \E w \in DOMAIN words_to_stat_count : words_to_stat_count[w] = 2

\* C20: a call that has split had a budget of at least 2, and every call's
\* budget is in 0 .. B0, a child's in 0 .. B0 - 2 and below its parent's.
C20_BudgetNeverWraps ==
    \A c \in DOMAIN calls :
        /\ calls[c].N \in 0..calls[Root].N
        /\ HasSplit(c) =>
              /\ calls[c].N >= 2
              /\ \A k \in {LeftOf(c), RightOf(c)} :
                    k \in DOMAIN calls =>
                        /\ calls[k].N \in 0..(calls[Root].N - 2)
                        /\ calls[k].N < calls[c].N

\* Started with the odd budget 3, the top call has split and both children
\* have returned with budget 1.
C20_Witness ==
    /\ calls[Root].N = 3
    /\ HasSplit(Root)
    /\ calls[LeftOf(Root)].N = 1
    /\ calls[LeftOf(Root)].pc = "done"
    /\ calls[RightOf(Root)].pc = "done"

====
